---- MODULE Spec2Model ----
(***************************************************************************)
(* Model of src/main.py: the /peloton/summary request handler, the         *)
(* paginated workout fetcher, the weekly streak calculator and the streak  *)
(* bar renderer.                                                           *)
(*                                                                         *)
(* Dates are proleptic Gregorian ordinals (date.toordinal()); timestamps   *)
(* are integer seconds since 1970-01-01 UTC.  A workout record is a dict   *)
(* (a TLA+ record) that may or may not carry the key start_time; a JSON    *)
(* value is tagged with its Python type ([t |-> "int", v |-> n] or         *)
(* [t |-> "null", v |-> 0]).  The current UTC date is read once per        *)
(* request (no midnight passes while a request is served).                 *)
(***************************************************************************)
EXTENDS Integers, Sequences, FiniteSets, TLC

VARIABLES
    pc,            \* position of the request flow
    today,         \* datetime.utcnow().date(), as an ordinal
    history,       \* the remote listing: the non-empty pages of the user
    page,          \* fetch_workouts_for_streak: local `page`
    workouts,      \* fetch_workouts_for_streak: local `workouts`
    requests,      \* page indices requested so far, in order
    responses,     \* the responses received so far, in order
    fetch,         \* outcome of the fetcher: how it ended, what it returned
    weekly_streak, \* peloton_summary: local `weekly_streak`
    max_units,     \* generate_streak_bar: parameter `max_units`
    streak_bar,    \* peloton_summary: local `streak_bar`
    outcome,       \* what the request handler answers
    prev           \* the previous call of the calculator (calculator runs)

vars == << pc, today, history, page, workouts, requests, responses, fetch,
           weekly_streak, max_units, streak_bar, outcome, prev >>

---------------------------------------------------------------------------
(* Bounds of the model *)

MaxPages == 2
MaxPageLen == 1
MaxRecords == 3
MaxWeeks == 25
MaxBarUnits == 20

(* Program constants *)

limit == 100
DefaultMaxUnits == 20
HTTP_OK == 200
LastWeekFallback == 52

---------------------------------------------------------------------------
(* Calendar: datetime.utcfromtimestamp(ts).date() and date.isocalendar()  *)

Years == 2019 .. 2023

SecondsPerDay == 24 * 60 * 60

DaysBeforeYear(y) ==
    (y - 1) * 365 + ((y - 1) \div 4) - ((y - 1) \div 100) + ((y - 1) \div 400)

Jan1(y) == DaysBeforeYear(y) + 1

EpochOrdinal == Jan1(1970)

\* datetime.utcfromtimestamp(ts).date()
utcfromtimestamp_date(ts) == EpochOrdinal + (ts \div SecondsPerDay)

YearOf(d) == CHOOSE y \in Years : Jan1(y) <= d /\ d < Jan1(y + 1)

\* the Monday of ISO week 1 of year y (week 1 holds the first Thursday)
IsoWeek1Monday(y) ==
    LET firstday == Jan1(y)
        firstweekday == (firstday + 6) % 7
        week1monday == firstday - firstweekday
    IN  IF firstweekday > 3 THEN week1monday + 7 ELSE week1monday

\* date.isocalendar(), without the weekday: << ISO year, ISO week >>
isocalendar(d) ==
    LET year == YearOf(d)
        week == (d - IsoWeek1Monday(year)) \div 7
    IN  IF d < IsoWeek1Monday(year)
        THEN << year - 1, ((d - IsoWeek1Monday(year - 1)) \div 7) + 1 >>
        ELSE IF week >= 52 /\ d >= IsoWeek1Monday(year + 1)
             THEN << year + 1, 1 >>
             ELSE << year, week + 1 >>

---------------------------------------------------------------------------
(* Workout records *)

None == [t |-> "null", v |-> 0]

IntValue(n) == [t |-> "int", v |-> n]

\* isinstance(x, int)
IsInt(x) == x.t = "int"

\* w.get("start_time")
Get(w) == IF "start_time" \in DOMAIN w THEN w.start_time ELSE None

\* seconds into the day of the workout that lies `off` days before today
SecondOfDay(off) ==
    CASE off = 0 -> 0
      [] off = 1 -> SecondsPerDay - 1
      [] OTHER   -> SecondsPerDay \div 2

Timestamp(t, off) == (t - off - EpochOrdinal) * SecondsPerDay + SecondOfDay(off)

WorkoutAt(t, off) == [id |-> "w", start_time |-> IntValue(Timestamp(t, off))]

Malformed == { [id |-> "w"], [id |-> "w", start_time |-> None] }

\* the records a page may hold when the current date is t
Records(t, offs) == { WorkoutAt(t, off) : off \in offs } \cup Malformed

RECURSIVE Concat(_)
Concat(pages) ==
    IF pages = << >> THEN << >> ELSE Head(pages) \o Concat(Tail(pages))

SeqsUpTo(S, lo, hi) == UNION { [1 .. n -> S] : n \in lo .. hi }

---------------------------------------------------------------------------
(* calculate_weekly_streak *)

weeks_with_workouts(ws) ==
    { isocalendar(utcfromtimestamp_date(Get(ws[i]).v)) :
        i \in { j \in DOMAIN ws : IsInt(Get(ws[j])) } }

\* the week the loop looks at after week << y, w >>
StepBack(y, w) == IF w = 1 THEN << y - 1, LastWeekFallback >> ELSE << y, w - 1 >>

RECURSIVE StreakFrom(_, _, _)
StreakFrom(weeks, yw, streak) ==
    IF yw \in weeks
    THEN StreakFrom(weeks, StepBack(yw[1], yw[2]), streak + 1)
    ELSE streak

calculate_weekly_streak(ws, t) ==
    LET weeks == weeks_with_workouts(ws)
    IN  IF weeks = {} THEN 0 ELSE StreakFrom(weeks, isocalendar(t), 0)

---------------------------------------------------------------------------
(* generate_streak_bar: a string is a sequence of characters *)

Marker == "●"

DigitChars == << "0", "1", "2", "3", "4", "5", "6", "7", "8", "9" >>

\* f"{n}" for n >= 0
RECURSIVE FormatInt(_)
FormatInt(n) ==
    IF n < 10 THEN << DigitChars[n + 1] >>
    ELSE FormatInt(n \div 10) \o << DigitChars[(n % 10) + 1] >>

\* "●" * n
Repeat(n) == [i \in 1 .. n |-> Marker]

\* the comparison written `<`: a streak equal to the width overflows
generate_streak_bar_strict(weeks, units) ==
    IF weeks < units
    THEN Repeat(weeks)
    ELSE Repeat(units) \o << " ", "+" >> \o FormatInt(weeks - units)

generate_streak_bar(weeks, units) ==
    IF weeks <= units
    THEN Repeat(weeks)
    ELSE Repeat(units) \o << " ", "+" >> \o FormatInt(weeks - units)

---------------------------------------------------------------------------
(* fetch_workouts_for_streak *)

StatusCodes == { HTTP_OK, 500 }

\* no status check at all
StatusOk_unchecked(status) == TRUE

\* res.status_code != 200 raises; anything else goes on
StatusOk(status) == status = HTTP_OK

\* the loop without its `break`
Exhausted_never(data) == FALSE

\* `if not data: break`
Exhausted(data) == data = << >>

\* page += 2
NextPage_skip(p) == p + 2

\* page += 1
NextPage(p) == p + 1

\* the page the failure detail names: f"... on page {page}"
DetailPage(p) == p

\* what the remote listing answers for page index p
PageData(p) == IF p < Len(history) THEN history[p + 1] ELSE << >>

\* the records the comprehension converts: `"start_time" in w`
Dated(ws) == { i \in DOMAIN ws : "start_time" \in DOMAIN ws[i] }

\* datetime.utcfromtimestamp(None) raises TypeError
ConversionRaises(ws) == \E i \in Dated(ws) : ~IsInt(ws[i].start_time)

DateSet(ws) == { utcfromtimestamp_date(ws[i].start_time.v) : i \in Dated(ws) }

Max(S) == CHOOSE m \in S : \A x \in S : x <= m

\* sorted(S, reverse=True)
RECURSIVE SortedDesc(_)
SortedDesc(S) ==
    IF S = {} THEN << >> ELSE << Max(S) >> \o SortedDesc(S \ { Max(S) })

\* for i, d in enumerate(dates): if d != today - timedelta(days=i)
HasGap(dates, t) == \E i \in DOMAIN dates : dates[i] # t - (i - 1)

\* no page index beyond this one is ever requested (see PageWithinCap)
PageCap == MaxPages + 1

NoFetch == [state |-> "idle", value |-> << >>, detail_page |-> -1]

NoOutcome == [status |-> 0, cause |-> "pending"]

\* `except Exception` turns every exception into a 500 answer
Failure(cause) == [status |-> 500, cause |-> cause]

NoCall == [called |-> FALSE, workouts |-> << >>, streak |-> 0]

---------------------------------------------------------------------------
(* peloton_summary: the steps before the fetch *)

CheckCredentials ==
    /\ pc = "start"
    /\ \E present \in BOOLEAN :
         IF present
         THEN pc' = "login" /\ outcome' = outcome
         ELSE pc' = "done" /\ outcome' = Failure("Missing credentials")
    /\ UNCHANGED << today, history, page, workouts, requests, responses, fetch,
                    weekly_streak, max_units, streak_bar, prev >>

Login ==
    /\ pc = "login"
    /\ \E status \in StatusCodes :
         IF StatusOk(status)
         THEN pc' = "me" /\ outcome' = outcome
         ELSE pc' = "done" /\ outcome' = Failure("Peloton login failed")
    /\ UNCHANGED << today, history, page, workouts, requests, responses, fetch,
                    weekly_streak, max_units, streak_bar, prev >>

GetMe ==
    /\ pc = "me"
    /\ \E status \in StatusCodes :
         IF StatusOk(status)
         THEN pc' = "profile" /\ outcome' = outcome
         ELSE pc' = "done" /\ outcome' = Failure("Failed to get /me")
    /\ UNCHANGED << today, history, page, workouts, requests, responses, fetch,
                    weekly_streak, max_units, streak_bar, prev >>

GetProfile ==
    /\ pc = "profile"
    /\ \E status \in StatusCodes, total_present \in BOOLEAN :
         IF ~StatusOk(status)
         THEN pc' = "done" /\ outcome' = Failure("Failed to get user profile")
                /\ UNCHANGED << page, workouts, fetch >>
         ELSE IF ~total_present
         THEN pc' = "done" /\ outcome' = Failure("Could not find total_workouts")
                /\ UNCHANGED << page, workouts, fetch >>
         ELSE \* fetch_workouts_for_streak is entered
              /\ pc' = "fetch_loop"
              /\ workouts' = << >>
              /\ page' = 0
              /\ fetch' = [NoFetch EXCEPT !.state = "running"]
              /\ outcome' = outcome
    /\ UNCHANGED << today, history, requests, responses,
                    weekly_streak, max_units, streak_bar, prev >>

---------------------------------------------------------------------------
(* fetch_workouts_for_streak: one iteration is a request and its answer *)

FetchRequest ==
    /\ pc = "fetch_loop"
    /\ page <= PageCap
    /\ requests' = Append(requests, [page |-> page, limit |-> limit])
    /\ pc' = "fetch_wait"
    /\ UNCHANGED << today, history, page, workouts, responses, fetch,
                    weekly_streak, max_units, streak_bar, outcome, prev >>

FetchResponse ==
    /\ pc = "fetch_wait"
    /\ \E status \in StatusCodes :
         LET data == IF StatusOk(status) THEN PageData(page) ELSE << >>
             all  == workouts \o data
         IN  /\ responses' = Append(responses, [status_code |-> status, data |-> data])
             /\ IF ~StatusOk(status)
                THEN /\ fetch' = [state |-> "failed", value |-> << >>,
                                  detail_page |-> DetailPage(page)]
                     /\ pc' = "done"
                     /\ outcome' = Failure("Failed to fetch workouts")
                     /\ UNCHANGED << page, workouts >>
                ELSE IF Exhausted(data)
                THEN /\ fetch' = [state |-> "returned", value |-> workouts,
                                  detail_page |-> -1]
                     /\ pc' = "calc"
                     /\ UNCHANGED << page, workouts, outcome >>
                ELSE IF ConversionRaises(all)
                THEN /\ workouts' = all
                     /\ fetch' = [state |-> "raised", value |-> << >>,
                                  detail_page |-> -1]
                     /\ pc' = "done"
                     /\ outcome' = Failure("TypeError")
                     /\ page' = page
                ELSE IF HasGap(SortedDesc(DateSet(all)), today)
                THEN /\ workouts' = all
                     /\ fetch' = [state |-> "returned", value |-> all,
                                  detail_page |-> -1]
                     /\ pc' = "calc"
                     /\ UNCHANGED << page, outcome >>
                ELSE /\ workouts' = all
                     /\ page' = NextPage(page)
                     /\ pc' = "fetch_loop"
                     /\ UNCHANGED << fetch, outcome >>
    /\ UNCHANGED << today, history, requests,
                    weekly_streak, max_units, streak_bar, prev >>

---------------------------------------------------------------------------
(* peloton_summary: the steps after the fetch *)

Calculate ==
    /\ pc = "calc"
    /\ weekly_streak' = calculate_weekly_streak(fetch.value, today)
    /\ pc' = "bar"
    /\ UNCHANGED << today, history, page, workouts, requests, responses, fetch,
                    max_units, streak_bar, outcome, prev >>

Render ==
    /\ pc = "bar"
    /\ streak_bar' = generate_streak_bar(weekly_streak, max_units)
    /\ pc' = "last"
    /\ UNCHANGED << today, history, page, workouts, requests, responses, fetch,
                    weekly_streak, max_units, outcome, prev >>

\* max(workouts, key=lambda w: w["start_time"]) and the answer
LastWorkout ==
    /\ pc = "last"
    /\ pc' = "done"
    /\ LET ws == fetch.value
       IN  outcome' =
             IF ws = << >> THEN Failure("ValueError")
             ELSE IF Dated(ws) # DOMAIN ws THEN Failure("KeyError")
             ELSE IF ConversionRaises(ws) THEN Failure("TypeError")
             ELSE [status |-> HTTP_OK, cause |-> "ok",
                   weekly_streak |-> weekly_streak,
                   last_workout_date |-> Max(DateSet(ws)),
                   streak_bar |-> streak_bar]
    /\ UNCHANGED << today, history, page, workouts, requests, responses, fetch,
                    weekly_streak, max_units, streak_bar, prev >>

---------------------------------------------------------------------------
(* The request flow *)

Todays == { Jan1(2021) + 3, Jan1(2021) + 12, Jan1(2022) + 4 }

PageOffsets == { 0, 1, 7 }

Pages(t) == SeqsUpTo(Records(t, PageOffsets), 1, MaxPageLen)

Histories(t) == SeqsUpTo(Pages(t), 0, MaxPages)

Init ==
    /\ pc = "start"
    /\ today \in Todays
    /\ history \in Histories(today)
    /\ page = 0
    /\ workouts = << >>
    /\ requests = << >>
    /\ responses = << >>
    /\ fetch = NoFetch
    /\ weekly_streak = 0
    /\ max_units = DefaultMaxUnits
    /\ streak_bar = << >>
    /\ outcome = NoOutcome
    /\ prev = NoCall

Next ==
    \/ CheckCredentials
    \/ Login
    \/ GetMe
    \/ GetProfile
    \/ FetchRequest
    \/ FetchResponse
    \/ Calculate
    \/ Render
    \/ LastWorkout

Spec == Init /\ [][Next]_vars

(* Runs of the fetcher alone, from its entry: every page request is        *)
(* answered and the coroutine is resumed after each answer.                *)

FetchOffsets == { 0, 1 }

InitFetch ==
    /\ pc = "fetch_loop"
    /\ today \in Todays
    /\ history \in SeqsUpTo(SeqsUpTo(Records(today, FetchOffsets), 1, MaxPageLen),
                            0, MaxPages)
    /\ page = 0
    /\ workouts = << >>
    /\ requests = << >>
    /\ responses = << >>
    /\ fetch = [NoFetch EXCEPT !.state = "running"]
    /\ weekly_streak = 0
    /\ max_units = DefaultMaxUnits
    /\ streak_bar = << >>
    /\ outcome = NoOutcome
    /\ prev = NoCall

NextFetch ==
    \/ FetchRequest
    \/ FetchResponse

SpecFetch ==
    InitFetch /\ [][NextFetch]_vars /\ WF_vars(FetchRequest) /\ WF_vars(FetchResponse)

---------------------------------------------------------------------------
(* Runs of the calculator alone: it is called on a collection that grows  *)
(* by one record between two calls.                                       *)

CalcOffsets == { 0, 1, 7, 14, 21 }

CalcMore ==
    /\ pc = "bar"
    /\ Len(fetch.value) < MaxRecords
    /\ \E r \in Records(today, CalcOffsets) :
         fetch' = [fetch EXCEPT !.value = Append(@, r)]
    /\ prev' = [called |-> TRUE, workouts |-> fetch.value, streak |-> weekly_streak]
    /\ pc' = "calc"
    /\ UNCHANGED << today, history, page, workouts, requests, responses,
                    weekly_streak, max_units, streak_bar, outcome >>

InitCalc ==
    /\ pc = "calc"
    /\ today \in Todays
    /\ history = << >>
    /\ page = 0
    /\ workouts = << >>
    /\ requests = << >>
    /\ responses = << >>
    /\ fetch = [NoFetch EXCEPT !.state = "returned"]
    /\ weekly_streak = 0
    /\ max_units = DefaultMaxUnits
    /\ streak_bar = << >>
    /\ outcome = NoOutcome
    /\ prev = NoCall

NextCalc ==
    \/ Calculate
    \/ CalcMore

SpecCalc == InitCalc /\ [][NextCalc]_vars

(* Runs of the renderer alone, on every streak and width within the bounds *)

InitBar ==
    /\ pc = "bar"
    /\ today \in Todays
    /\ history = << >>
    /\ page = 0
    /\ workouts = << >>
    /\ requests = << >>
    /\ responses = << >>
    /\ fetch = NoFetch
    /\ weekly_streak \in 0 .. MaxWeeks
    /\ max_units \in 0 .. MaxBarUnits
    /\ streak_bar = << >>
    /\ outcome = NoOutcome
    /\ prev = NoCall

NextBar == Render

SpecBar == InitBar /\ [][NextBar]_vars

---------------------------------------------------------------------------
(* Notions the properties are stated with *)

\* the Monday that starts the calendar week of day d (ordinal 1 is a Monday)
WeekStart(d) == d - ((d + 6) % 7)

\* the calendar dates of the records that have an integer start time
DatesOf(ws) ==
    { EpochOrdinal + (Get(ws[i]).v \div SecondsPerDay) :
        i \in { j \in DOMAIN ws : IsInt(Get(ws[j])) } }

ActiveWeekStarts(ws) == { WeekStart(d) : d \in DatesOf(ws) }

\* consecutive calendar weeks with a workout, from the week of t backward
IsoStreak(ws, t) ==
    CHOOSE n \in 0 .. Len(ws) + 1 :
        /\ \A i \in 0 .. n - 1 : WeekStart(t) - 7 * i \in ActiveWeekStarts(ws)
        /\ WeekStart(t) - 7 * n \notin ActiveWeekStarts(ws)

WellFormed(ws) == SelectSeq(ws, LAMBDA w : IsInt(Get(w)))

FetchEnded == fetch.state \in { "returned", "failed", "raised" }

NoFetchFailure == \A k \in DOMAIN responses : responses[k].status_code = HTTP_OK

\* the first k pages of the history, concatenated
FirstPages(k) == Concat(SubSeq(history, 1, k))

\* the dates of ws are not exactly today, today - 1, ..., without a hole
DailyGap(ws) ==
    DatesOf(ws) # { today - i : i \in 0 .. Cardinality(DatesOf(ws)) - 1 }

\* page indices k such that pages 0..k together show a daily gap
GapPages == { k \in 0 .. Len(history) - 1 : DailyGap(FirstPages(k + 1)) }

ExpectedResult ==
    IF GapPages = {} THEN Concat(history)
    ELSE FirstPages((CHOOSE k \in GapPages : \A j \in GapPages : k <= j) + 1)

---------------------------------------------------------------------------
(* Properties *)

\* C1: the calculator returns the number of consecutive ISO calendar weeks,
\* counted backward from the week of the current date, that hold a workout,
\* each week being the true ISO predecessor of the one before it.
C1_IsoStreak ==
    (pc = "bar") => weekly_streak = IsoStreak(fetch.value, today)

\* C2: when no page fetch fails, the streak computed from what the fetcher
\* returns equals the streak computed from the user's entire history.
C2_FetchSufficient ==
    (fetch.state = "returned") =>
        calculate_weekly_streak(fetch.value, today)
            = calculate_weekly_streak(Concat(history), today)

\* C3: a non-success response for page k ends the fetcher in a failure that
\* names page k, hands no records to the caller and is the last request made.
C3_FailureAborts ==
    \A k \in DOMAIN responses :
        responses[k].status_code # HTTP_OK =>
            /\ fetch.state = "failed"
            /\ fetch.detail_page = k - 1
            /\ fetch.value = << >>
            /\ Len(requests) = k
            /\ requests[k].page = k - 1
            /\ pc = "done"
            /\ outcome = Failure("Failed to fetch workouts")
            /\ weekly_streak = 0

C3_Witness ==
    /\ fetch.state = "failed"
    /\ fetch.detail_page = 1
    /\ workouts # << >>
    /\ Len(requests) = 2

\* C4: a request for a user with an empty history is answered without an
\* error and reports a weekly streak of 0.
C4_EmptyHistoryOk ==
    (pc = "done" /\ history = << >> /\ fetch.state = "returned") =>
        (outcome.status = HTTP_OK /\ weekly_streak = 0)

\* C5: records without an integer start time never make the gap check or the
\* calculator fail, and the streak is the one of the well-formed records.
C5_MalformedSkipped ==
    /\ fetch.state # "raised"
    /\ (pc \in { "bar", "last", "done" } /\ fetch.state = "returned") =>
           weekly_streak = calculate_weekly_streak(WellFormed(fetch.value), today)

\* C6: when no page fetch fails the fetcher returns exactly pages 0..k, k the
\* first page after which the accumulated dates show a daily gap, or every
\* page when there is no such k.
C6_ReturnsPrefix ==
    (FetchEnded /\ NoFetchFailure) =>
        (fetch.state = "returned" /\ fetch.value = ExpectedResult)

\* what C6 says of the runs in which the fetcher does return
ReturnedIsPrefix ==
    (fetch.state = "returned") => fetch.value = ExpectedResult

\* the value a sequence of decimal digits denotes
RECURSIVE ParseInt(_)
ParseInt(ds) ==
    IF ds = << >> THEN 0
    ELSE 10 * ParseInt(SubSeq(ds, 1, Len(ds) - 1))
           + (CHOOSE v \in 0 .. 9 : DigitChars[v + 1] = ds[Len(ds)])

IsDecimalOf(ds, n) ==
    /\ ds # << >>
    /\ \A i \in DOMAIN ds : \E v \in 0 .. 9 : DigitChars[v + 1] = ds[i]
    /\ Len(ds) > 1 => ds[1] # "0"
    /\ ParseInt(ds) = n

\* C7: the bar is min(s, m) markers, followed by " +" and the decimal value
\* of s - m exactly when s > m, and by nothing when s <= m.
C7_BarShape ==
    (pc = "last") =>
        LET s == weekly_streak
            m == max_units
            k == IF s <= m THEN s ELSE m
            b == streak_bar
        IN  /\ Len(b) >= k
            /\ \A i \in 1 .. k : b[i] = Marker
            /\ IF s > m
               THEN /\ Len(b) >= k + 3
                    /\ b[k + 1] = " "
                    /\ b[k + 2] = "+"
                    /\ IsDecimalOf(SubSeq(b, k + 3, Len(b)), s - m)
               ELSE Len(b) = k

C7_Witness ==
    /\ pc = "last"
    /\ weekly_streak = 25
    /\ max_units = 20
    /\ Len(streak_bar) = 23
    /\ streak_bar[20] = Marker
    /\ SubSeq(streak_bar, 21, 23) = << " ", "+", "5" >>

\* the Monday of the first week, going backward from today, without a workout
FirstMissingWeek(ws) == WeekStart(today) - 7 * IsoStreak(ws, today)

\* C8: with the current date fixed, adding a record never lowers the streak,
\* and adding one only in a week older than the first missing week leaves
\* the streak unchanged.
C8_Monotonic ==
    (pc = "bar" /\ prev.called) =>
        LET added == Get(fetch.value[Len(fetch.value)])
            older == IsInt(added) =>
                       EpochOrdinal + (added.v \div SecondsPerDay)
                           < FirstMissingWeek(prev.workouts)
        IN  /\ prev.streak <= weekly_streak
            /\ older => weekly_streak = prev.streak

\* the first half of C8 alone
NeverLowers ==
    (pc = "bar" /\ prev.called) => prev.streak <= weekly_streak

\* the records of the first k responses, in order
Received(k) == Concat([i \in 1 .. k |-> responses[i].data])

\* C9: pages are requested as 0, 1, 2, ... one at a time; page k+1 is asked
\* for only after the answer for page k came, was successful and non-empty,
\* was appended and passed the gap check; nothing is requested once the
\* fetcher has returned or failed.
C9_Sequential ==
    /\ \A i \in DOMAIN requests : requests[i].page = i - 1
    /\ Len(responses) <= Len(requests)
    /\ Len(requests) <= Len(responses) + 1
    /\ (Len(requests) = Len(responses) + 1) <=> (pc = "fetch_wait")
    /\ \A i \in 1 .. Len(requests) - 1 :
         /\ i <= Len(responses)
         /\ responses[i].status_code = HTTP_OK
         /\ responses[i].data # << >>
         /\ SubSeq(workouts, 1, Len(Received(i))) = Received(i)
         /\ ~DailyGap(Received(i))
    /\ FetchEnded =>
         /\ Len(requests) = Len(responses)
         /\ pc \notin { "fetch_loop", "fetch_wait" }

C9_Witness ==
    /\ Len(requests) = 3
    /\ Len(responses) = 2
    /\ pc = "fetch_wait"
    /\ Len(workouts) >= 2

\* the requests made stay within the pages a finite history calls for
WithinHistory ==
    /\ Len(requests) <= Len(history) + 1
    /\ \A k \in DOMAIN responses :
         (responses[k].status_code # HTTP_OK \/ responses[k].data = << >>) =>
             Len(requests) <= k

\* C10: on a finite history whose requests are all answered, the fetcher
\* eventually returns or fails, having requested at most pages 0..n, n the
\* first page whose answer is empty or a non-success.
C10_Terminates ==
    (fetch.state = "running") ~> (FetchEnded /\ WithinHistory)

C10_Witness ==
    /\ fetch.state = "returned"
    /\ Len(history) = 2
    /\ Len(requests) = 3
    /\ responses[3].data = << >>

\* the cap on the page index in FetchRequest never holds a request back
PageWithinCap == (pc = "fetch_loop") => page <= Len(history)

====
